---- MODULE Spec2Model ----
(***************************************************************************)
(* Model of the search orchestrator of prof_backend (src/main.py): the two *)
(* endpoints /search (any provider, ordered fallback) and                   *)
(* /search/{provider} (pinned provider), the response cache they read and   *)
(* write, and the translation step.                                         *)
(*                                                                          *)
(* Each request is an asyncio coroutine: it runs without interruption       *)
(* between two awaits, and the only awaits of the handlers are the provider *)
(* calls (main.py 82, 84, 150, 152).  An action of the model is therefore   *)
(* one such uninterrupted segment: from the start of the handler to its     *)
(* first provider call (or its end), and from the completion of a provider  *)
(* call to the next provider call (or the end of the handler).              *)
(*                                                                          *)
(* core.cache, translation.translate, providers.provide_by_language and     *)
(* config.DEFAULT_MAX_AGE are imported by main.py but are not part of the   *)
(* sources at hand; they are modelled from their contract in spec.md        *)
(* (sections 4.1, 4.2, 6).                                                  *)
(***************************************************************************)
EXTENDS Integers, Sequences, FiniteSets, TLC

\* cache, now, req: the application (main.py).  call: one call of a method of
\* a scraper, in the process of its provider.
VARIABLES cache, now, req, call

vars == <<cache, now, req, call>>

(***************************************************************************)
(* Bounds of the model.                                                     *)
(***************************************************************************)
MaxTime == 2
\* The number of requests served, any number of them in flight together.
NumReq == 2

\* config.DEFAULT_MAX_AGE (imported at main.py 14), in clock ticks.
DEFAULT_MAX_AGE == 1

Reqs == 1..NumReq

(***************************************************************************)
(* Inputs.                                                                  *)
(***************************************************************************)
Queries == {"rome"}

\* A text is a sequence of characters; " " is the whitespace character.
Texts == { <<" ", "a", " ", "b", " ">> }

Langs == {"it", "en", "fr"}

\* The values of the query parameter `long`.
Modes == {FALSE, TRUE}

\* The Cache-Control header.  A present header is a sequence of tokens, each
\* token standing for the substring of that name.
NoHeader == [present |-> FALSE, toks |-> <<>>]

Header(toks) == [present |-> TRUE, toks |-> toks]

Headers ==
    { NoHeader,
      Header(<<"no-cache">>),
      Header(<<"max-age=", "0">>),
      Header(<<"max-age=", "2">>),
      Header(<<"max-age=", "abc">>) }

(***************************************************************************)
(* Python values.                                                           *)
(***************************************************************************)
None == [kind |-> "None"]

NoPin == "None"

(***************************************************************************)
(* Cache-Control interpretation, main.py 68-71 and 141-144.                 *)
(***************************************************************************)
\* str.startswith(prefix) for a prefix that is one token.
StartsWith(toks, prefix) == Len(toks) > 0 /\ toks[1] = prefix

\* str.replace(old, ""): every occurrence of the token is removed.
Replace(toks, old) == SelectSeq(toks, LAMBDA x : x # old)

Digits == {"0", "1", "2"}

DigitValue(d) == CASE d = "0" -> 0 [] d = "1" -> 1 [] d = "2" -> 2

\* int(s) on what is left of the header: a decimal literal with an optional
\* sign, ValueError otherwise (the empty string included).
IntOf(toks) ==
    IF Len(toks) = 1 /\ toks[1] \in Digits
    THEN [ok |-> TRUE, val |-> DigitValue(toks[1])]
    ELSE IF Len(toks) = 2 /\ toks[1] = "-" /\ toks[2] \in Digits
    THEN [ok |-> TRUE, val |-> 0 - DigitValue(toks[2])]
    ELSE [ok |-> FALSE, val |-> 0]

\* Mutant: the test for no-cache is forgotten.
UsesDefaultMaxAge_NoCacheForgotten(cc) ==
    ~cc.present \/ ~StartsWith(cc.toks, "max-age=")

\* Mutant: the test `cache_control is None` is forgotten.
UsesDefaultMaxAge_NotNone(cc) ==
    cc.present /\ ~(StartsWith(cc.toks, "max-age=") \/ StartsWith(cc.toks, "no-cache"))

\* main.py 68 / 141: the condition of the first branch.
UsesDefaultMaxAge(cc) ==
    \/ ~cc.present
    \/ ~(StartsWith(cc.toks, "max-age=") \/ StartsWith(cc.toks, "no-cache"))

\* main.py 70 / 143: the condition of the elif branch.
UsesHeaderMaxAge(cc) == cc.present /\ StartsWith(cc.toks, "max-age=")

(***************************************************************************)
(* core.cache (contract of spec.md 4.1).  One stored entry per key; the key *)
(* is (query text, mode, language, provider pin) and has a variant without  *)
(* pin, read by the any-provider lookup.  add upserts the entry under the   *)
(* pinned variant and under the variant without pin, so either lookup       *)
(* computes the key the write path wrote.                                   *)
(***************************************************************************)
ProviderIds == {"treccani", "wikipediaen"}

Pins == ProviderIds \cup {NoPin}

CacheKeys == Queries \X Modes \X Langs \X Pins

CacheKey(q, long, lang, pin) == <<q, long, lang, pin>>

EmptyCache == [k \in CacheKeys |-> None]

\* cache.retrieve(q, long, lang, max_age, provider=None)
CacheRetrieve(c, t, q, long, lang, max_age, pin) ==
    LET e == c[CacheKey(q, long, lang, pin)]
    IN IF e # None /\ t - e.created_at <= max_age THEN e ELSE None

\* cache.add(q, provider, long, lang, result)
CacheAdd(c, q, provider, long, lang, result) ==
    [c EXCEPT ![CacheKey(q, long, lang, provider)] = result,
              ![CacheKey(q, long, lang, NoPin)] = result]

(***************************************************************************)
(* translation.translate (contract of spec.md 6): a new result in the       *)
(* target language, with a new created_at; provider and original_language   *)
(* are those of the argument.  The translated text is the text marked with  *)
(* the target language.                                                     *)
(***************************************************************************)
Translate(result, lang, t) ==
    [result EXCEPT !.data = <<lang>> \o result.data,
                   !.current_language = lang,
                   !.created_at = t]

(***************************************************************************)
(* providers.provide_by_language (contract of spec.md 4.2): the ordered     *)
(* fallback list of a language; a language without providers has the empty  *)
(* list.                                                                    *)
(***************************************************************************)
FallbackList(lang) ==
    CASE lang = "it" -> <<"treccani", "wikipediaen">>
      [] lang = "en" -> <<"wikipediaen">>
      [] OTHER -> <<>>

(***************************************************************************)
(* The provider clients.  A completed call returns a ScrapeReply or raises. *)
(* The language of a reply is fixed by the provider.                        *)
(***************************************************************************)
\* ScraperTreccani: ScrapeReply(language="it", ...)
TreccaniLanguage == "it"

\* ScraperWikipediaEN: ScrapeReply(language="en", ...)
WikipediaENLanguage == "en"

ProviderLanguage(p) ==
    IF p = "treccani" THEN TreccaniLanguage ELSE WikipediaENLanguage

\* The list of DisamiguousLink of a disambiguous reply.
LinkLists == { << [label |-> "Rome (city)", url |-> "u1"],
                  [label |-> "Rome (film)", url |-> "u2"] >> }

\* What a call that completes without raising returns.  A reply that is not
\* disambiguous carries a non-empty text.
Replies(p) ==
    { [language |-> ProviderLanguage(p), disambiguous |-> FALSE,
       data |-> d, disambiguousData |-> <<>>] : d \in Texts }
    \cup
    { [language |-> ProviderLanguage(p), disambiguous |-> TRUE,
       data |-> <<>>, disambiguousData |-> l] : l \in LinkLists }

\* The exceptions the handlers tell apart (main.py 85, 89, 91).
Exceptions == {"GRPCError", "ConnectionRefusedError", "Exception"}

(***************************************************************************)
(* str.strip(): leading and trailing whitespace removed.                    *)
(***************************************************************************)
RECURSIVE LStrip(_)
LStrip(s) == IF Len(s) > 0 /\ Head(s) = " " THEN LStrip(Tail(s)) ELSE s

RECURSIVE RStrip(_)
RStrip(s) ==
    IF Len(s) > 0 /\ s[Len(s)] = " " THEN RStrip(SubSeq(s, 1, Len(s) - 1)) ELSE s

Strip(s) == RStrip(LStrip(s))

(***************************************************************************)
(* A request.  pc is the position of its coroutine:                         *)
(*   "idle"      no request in this slot                                    *)
(*   "awaiting"  suspended in `await stub.search / long_search` of the      *)
(*               provider calls[Len(calls)]                                 *)
(*   "done"      the handler returned or raised; status and body are the    *)
(*               HTTP response                                              *)
(* path, q, long, lang, cache_control, provider are the handler's           *)
(* arguments (lang is req.state.lang, provider the pinned identifier after  *)
(* utils.sanitize_string); idx is the position of the fanout loop.          *)
(* The other fields record what the request did: pred, the requests that   *)
(* had completed when it arrived; calls, the provider calls it issued;      *)
(* outcomes, how each completed call ended (a reply or an exception); hit,  *)
(* whether its cache lookup returned an entry; writes, the (language,       *)
(* provider) of each cache.add it made; translations, the number of calls   *)
(* of translate; reads, the number of calls of cache.retrieve.              *)
(***************************************************************************)
Idle ==
    [pc |-> "idle", path |-> "none", q |-> "", long |-> FALSE, lang |-> "",
     cache_control |-> NoHeader, provider |-> NoPin, idx |-> 0,
     status |-> 0, body |-> None,
     pred |-> {}, calls |-> <<>>, outcomes |-> <<>>, hit |-> FALSE,
     writes |-> <<>>, translations |-> 0, reads |-> 0]

NewRequest(path, q, provider, long, lang, cc) ==
    [Idle EXCEPT !.pc = "running", !.path = path, !.q = q, !.long = long,
                 !.lang = lang, !.cache_control = cc, !.provider = provider]

\* How a completed provider call ended.
Returned(reply) == [kind |-> "reply", reply |-> reply]

Raised(exc) == [kind |-> "raise", exc |-> exc]

Completed(r, outcome) == [r EXCEPT !.outcomes = Append(@, outcome)]

\* The handler ends with this response.
Done(r, status, body) == [r EXCEPT !.pc = "done", !.status = status, !.body = body]

HTTPException(detail) == [kind |-> "error", detail |-> detail]

\* JSONResponse(status_code=409, content={"data": ..., "provider": ...})
ConflictBody(links, provider) ==
    [kind |-> "conflict", data |-> links, provider |-> provider]

\* The name of the stub method called for this mode (main.py 81-84, 149-152).
Method(long) == IF long THEN "long_search" ELSE "search"

\* `await stub.search(text=q)`: the coroutine is suspended in a call of p.
Await(r, i, p) ==
    [r EXCEPT !.pc = "awaiting", !.idx = i,
              !.calls = Append(@, [provider |-> p, method |-> Method(r.long)])]

\* Mutant: the max-age of the header is parsed and then not used.
CacheLookup_AlwaysDefault(c, t, r) ==
    IF UsesDefaultMaxAge(r.cache_control)
    THEN [raised |-> FALSE, reads |-> 1,
          result |-> CacheRetrieve(c, t, r.q, r.long, r.lang, DEFAULT_MAX_AGE, r.provider)]
    ELSE IF UsesHeaderMaxAge(r.cache_control)
    THEN LET n == IntOf(Replace(r.cache_control.toks, "max-age="))
         IN IF n.ok
            THEN [raised |-> FALSE, reads |-> 1,
                  result |-> CacheRetrieve(c, t, r.q, r.long, r.lang,
                                           DEFAULT_MAX_AGE, r.provider)]
            ELSE [raised |-> TRUE, reads |-> 0, result |-> None]
    ELSE [raised |-> FALSE, reads |-> 0, result |-> None]

\* Mutant: the lookup of line 142 / 144 leaves the provider out, as the
\* lookup of search() does.
CacheLookup_NoPin(c, t, r) ==
    IF UsesDefaultMaxAge(r.cache_control)
    THEN [raised |-> FALSE, reads |-> 1,
          result |-> CacheRetrieve(c, t, r.q, r.long, r.lang, DEFAULT_MAX_AGE, NoPin)]
    ELSE IF UsesHeaderMaxAge(r.cache_control)
    THEN LET n == IntOf(Replace(r.cache_control.toks, "max-age="))
         IN IF n.ok
            THEN [raised |-> FALSE, reads |-> 1,
                  result |-> CacheRetrieve(c, t, r.q, r.long, r.lang, n.val, NoPin)]
            ELSE [raised |-> TRUE, reads |-> 0, result |-> None]
    ELSE [raised |-> FALSE, reads |-> 0, result |-> None]

(***************************************************************************)
(* main.py 67-71 and 140-144: the cache lookup.  raised: int() raised       *)
(* ValueError; result: the value of `result` at line 73 / 146; reads: the   *)
(* number of calls of cache.retrieve made.                                  *)
(***************************************************************************)
CacheLookup(c, t, r) ==
    IF UsesDefaultMaxAge(r.cache_control)
    THEN [raised |-> FALSE, reads |-> 1,
          result |-> CacheRetrieve(c, t, r.q, r.long, r.lang, DEFAULT_MAX_AGE, r.provider)]
    ELSE IF UsesHeaderMaxAge(r.cache_control)
    THEN LET n == IntOf(Replace(r.cache_control.toks, "max-age="))
         IN IF n.ok
            THEN [raised |-> FALSE, reads |-> 1,
                  result |-> CacheRetrieve(c, t, r.q, r.long, r.lang, n.val, r.provider)]
            ELSE [raised |-> TRUE, reads |-> 0, result |-> None]
    ELSE [raised |-> FALSE, reads |-> 0, result |-> None]

\* The request after its lookup: what the lookup did is recorded.
Looked(r, look) ==
    [r EXCEPT !.reads = look.reads, !.hit = (look.result # None)]

\* Mutant: the text of the reply is stored untrimmed.
Normalize_NoStrip(reply, provider, t) ==
    [kind |-> "result",
     data |-> reply.data,
     provider |-> provider,
     current_language |-> reply.language,
     original_language |-> reply.language,
     created_at |-> t]

(***************************************************************************)
(* main.py 104-110 and 170-175: the result built from a reply.              *)
(***************************************************************************)
Normalize(reply, provider, t) ==
    [kind |-> "result",
     data |-> Strip(reply.data),
     provider |-> provider,
     current_language |-> reply.language,
     original_language |-> reply.language,
     created_at |-> t]

\* Mutant: the language of the reply is compared with itself.
NeedsTranslation_SameField(result, lang) ==
    result.current_language # result.original_language

\* main.py 112 / 178: the condition of the translation step.
NeedsTranslation(result, lang) == result.current_language # lang

\* Mutant: the translated result is stored under the language of the reply.
TranslationKeyLanguage_Original(r, result) == result.original_language

\* main.py 114 / 180: the language component of the key of the second write.
TranslationKeyLanguage(r, result) == r.lang

\* Mutant: the second write stores the result as it was before translate.
TranslationCheck_StoresUntranslated(c, t, r, result) ==
    IF NeedsTranslation(result, r.lang)
    THEN LET tr == Translate(result, r.lang, t)
             kl == TranslationKeyLanguage(r, tr)
         IN [cache |-> CacheAdd(c, r.q, tr.provider, r.long, kl, result),
             req |-> Done([r EXCEPT !.translations = @ + 1,
                                    !.writes = Append(@, <<kl, tr.provider>>)],
                          200, tr)]
    ELSE [cache |-> c, req |-> Done(r, 200, result)]

(***************************************************************************)
(* main.py 112-115 and 178-181: translation check and return.               *)
(***************************************************************************)
TranslationCheck(c, t, r, result) ==
    IF NeedsTranslation(result, r.lang)
    THEN LET tr == Translate(result, r.lang, t)
             kl == TranslationKeyLanguage(r, tr)
         IN [cache |-> CacheAdd(c, r.q, tr.provider, r.long, kl, tr),
             req |-> Done([r EXCEPT !.translations = @ + 1,
                                    !.writes = Append(@, <<kl, tr.provider>>)],
                          200, tr)]
    ELSE [cache |-> c, req |-> Done(r, 200, result)]

\* main.py 101 / 167: result.get("disambiguous")
IsDisambiguous(reply) == reply.disambiguous

\* Mutant: the reply is normalized and stored before the disambiguation test.
HandleReply_StoreFirst(c, t, r, reply, provider) ==
    LET result == Normalize(reply, provider, t)
        c1 == CacheAdd(c, r.q, provider, r.long, result.current_language, result)
        r1 == [r EXCEPT !.writes = Append(@, <<result.current_language, provider>>)]
    IN IF IsDisambiguous(reply)
       THEN [cache |-> c1,
             req |-> Done(r1, 409, ConflictBody(reply.disambiguousData, provider))]
       ELSE TranslationCheck(c1, t, r1, result)

(***************************************************************************)
(* main.py 101-115 and 167-181: from the reply of `provider` to the end of  *)
(* the handler.                                                             *)
(***************************************************************************)
HandleReply(c, t, r, reply, provider) ==
    IF IsDisambiguous(reply)
    THEN [cache |-> c,
          req |-> Done(r, 409, ConflictBody(reply.disambiguousData, provider))]
    ELSE LET result == Normalize(reply, provider, t)
         IN TranslationCheck(
                CacheAdd(c, r.q, provider, r.long, result.current_language, result),
                t,
                [r EXCEPT !.writes = Append(@, <<result.current_language, provider>>)],
                result)

\* Mutant: when every candidate has failed, the entry of the key is dropped
\* before the 404.
Fanout_DropsEntry(c, r, i) ==
    IF i <= Len(FallbackList(r.lang))
    THEN [cache |-> c, req |-> Await(r, i, FallbackList(r.lang)[i])]
    ELSE [cache |-> CacheAdd(c, r.q, NoPin, r.long, r.lang, None),
          req |-> Done(r, 404, HTTPException("result_not_found"))]

(***************************************************************************)
(* main.py 77-100: the fanout loop, entered at candidate i with result None.*)
(* Past the end of the list the loop is over and line 100 raises 404.       *)
(***************************************************************************)
Fanout(c, r, i) ==
    IF i <= Len(FallbackList(r.lang))
    THEN [cache |-> c, req |-> Await(r, i, FallbackList(r.lang)[i])]
    ELSE [cache |-> c, req |-> Done(r, 404, HTTPException("result_not_found"))]

\* Mutant: the candidate that raised is called again.
SearchAfterRaise_Retry(c, r, exc) == Fanout(c, r, r.idx)

\* Mutant: an unexpected exception ends the request, as on the pinned path.
SearchAfterRaise_Abort(c, r, exc) ==
    IF exc \in {"GRPCError", "ConnectionRefusedError"}
    THEN Fanout(c, r, r.idx + 1)
    ELSE [cache |-> c, req |-> Done(r, 500, HTTPException("unknown_error"))]

\* main.py 85-93: the call of candidate i raised; every except clause falls
\* through to line 93 with result None, and the loop takes the next candidate.
SearchAfterRaise(c, r, exc) == Fanout(c, r, r.idx + 1)

\* main.py 93-96: the call of candidate i returned a reply; break.
SearchAfterReply(c, t, r, reply) ==
    HandleReply(c, t, r, reply, FallbackList(r.lang)[r.idx])

(***************************************************************************)
(* main.py 51-115, up to the first await.                                   *)
(***************************************************************************)
SearchBegin(c, t, q, long, lang, cc) ==
    LET r0 == NewRequest("any", q, NoPin, long, lang, cc)
        look == CacheLookup(c, t, r0)
        r == Looked(r0, look)
    IN IF look.raised
       THEN [cache |-> c, req |-> Done(r, 500, HTTPException("Internal Server Error"))]
       ELSE IF look.result # None
       THEN TranslationCheck(c, t, r, look.result)
       ELSE Fanout(c, r, 1)

\* Mutant: every exception of the pinned provider is answered with 404.
SearchProviderAfterRaise_AllNotFound(c, r, exc) ==
    [cache |-> c, req |-> Done(r, 404, HTTPException("result_not_found"))]

\* main.py 153-164: the call of the pinned provider raised.
SearchProviderAfterRaise(c, r, exc) ==
    IF exc \in {"GRPCError", "ConnectionRefusedError"}
    THEN [cache |-> c, req |-> Done(r, 404, HTTPException("result_not_found"))]
    ELSE [cache |-> c, req |-> Done(r, 500, HTTPException("unknown_error"))]

\* main.py 165-181: the call of the pinned provider returned a reply.
SearchProviderAfterReply(c, t, r, reply) == HandleReply(c, t, r, reply, r.provider)

\* Mutant: the cache is read, as in search(), before the identifier is
\* validated.
SearchProviderBegin_ValidateLate(c, t, q, provider, long, lang, cc) ==
    LET r0 == NewRequest("pinned", q, provider, long, lang, cc)
        early == CacheLookup(c, t, [r0 EXCEPT !.provider = NoPin])
    IN IF provider \notin ProviderIds
       THEN [cache |-> c,
             req |-> Done([r0 EXCEPT !.reads = early.reads], 422,
                          HTTPException("provider_not_available"))]
       ELSE LET look == CacheLookup(c, t, r0)
                r == Looked(r0, look)
            IN IF look.raised
               THEN [cache |-> c,
                     req |-> Done(r, 500, HTTPException("Internal Server Error"))]
               ELSE IF look.result # None
               THEN TranslationCheck(c, t, r, look.result)
               ELSE [cache |-> c, req |-> Await(r, 1, provider)]

(***************************************************************************)
(* main.py 119-152, up to the await.                                        *)
(***************************************************************************)
SearchProviderBegin(c, t, q, provider, long, lang, cc) ==
    LET r0 == NewRequest("pinned", q, provider, long, lang, cc)
    IN IF provider \notin ProviderIds
       THEN [cache |-> c, req |-> Done(r0, 422, HTTPException("provider_not_available"))]
       ELSE LET look == CacheLookup(c, t, r0)
                r == Looked(r0, look)
            IN IF look.raised
               THEN [cache |-> c,
                     req |-> Done(r, 500, HTTPException("Internal Server Error"))]
               ELSE IF look.result # None
               THEN TranslationCheck(c, t, r, look.result)
               ELSE [cache |-> c, req |-> Await(r, 1, provider)]

(***************************************************************************)
(* The state machine.                                                       *)
(***************************************************************************)
\* The pinned identifiers a caller may send.
PinnedInputs == ProviderIds \cup {"unknown"}

\* No scraper call is followed.
NoCall == [pc |-> "none"]

Init ==
    /\ cache = EmptyCache
    /\ now = 0
    /\ req = [r \in Reqs |-> Idle]
    /\ call = NoCall

Apply(r, out) ==
    /\ cache' = out.cache
    /\ req' = [req EXCEPT ![r] = out.req]

\* The requests that have completed.
Finished == {o \in Reqs : req[o].pc = "done"}

Arrived(r, out) == Apply(r, [out EXCEPT !.req.pred = Finished])

\* GET /search arrives and runs to its first await or to its end.
Search(r) ==
    /\ req[r].pc = "idle"
    /\ \A o \in Reqs : o < r => req[o].pc # "idle"
    /\ \E q \in Queries, long \in Modes, lang \in Langs, cc \in Headers :
          Arrived(r, SearchBegin(cache, now, q, long, lang, cc))
    /\ UNCHANGED <<now, call>>

\* GET /search/{provider} arrives and runs to its await or to its end.
SearchProvider(r) ==
    /\ req[r].pc = "idle"
    /\ \A o \in Reqs : o < r => req[o].pc # "idle"
    /\ \E q \in Queries, provider \in PinnedInputs, long \in Modes,
          lang \in Langs, cc \in Headers :
          Arrived(r, SearchProviderBegin(cache, now, q, provider, long, lang, cc))
    /\ UNCHANGED <<now, call>>

\* Mutant: the provider call blocks the event loop, so a handler goes on
\* only when no handler that arrived before it is still waiting.
Resumable_Blocking(r) ==
    /\ req[r].pc = "awaiting"
    /\ \A o \in Reqs : o < r => req[o].pc # "awaiting"

\* main.py 82 / 84 / 150 / 152: the handler is suspended in `await`; the
\* event loop resumes it when its own call has returned or raised, whatever
\* the other handlers are waiting for.
Resumable(r) == req[r].pc = "awaiting"

\* The provider call a /search request awaits returns a reply.
SearchReply(r) ==
    /\ Resumable(r) /\ req[r].path = "any"
    /\ \E reply \in Replies(FallbackList(req[r].lang)[req[r].idx]) :
          Apply(r, SearchAfterReply(cache, now, Completed(req[r], Returned(reply)), reply))
    /\ UNCHANGED <<now, call>>

\* The provider call a /search request awaits raises.
SearchRaise(r) ==
    /\ Resumable(r) /\ req[r].path = "any"
    /\ \E exc \in Exceptions : Apply(r, SearchAfterRaise(cache, Completed(req[r], Raised(exc)), exc))
    /\ UNCHANGED <<now, call>>

\* The provider call a /search/{provider} request awaits returns a reply.
SearchProviderReply(r) ==
    /\ Resumable(r) /\ req[r].path = "pinned"
    /\ \E reply \in Replies(req[r].provider) :
          Apply(r, SearchProviderAfterReply(cache, now, Completed(req[r], Returned(reply)), reply))
    /\ UNCHANGED <<now, call>>

\* The provider call a /search/{provider} request awaits raises.
SearchProviderRaise(r) ==
    /\ Resumable(r) /\ req[r].path = "pinned"
    /\ \E exc \in Exceptions : Apply(r, SearchProviderAfterRaise(cache, Completed(req[r], Raised(exc)), exc))
    /\ UNCHANGED <<now, call>>

\* The clock (datetime.now()) advances.
Tick ==
    /\ now < MaxTime
    /\ now' = now + 1
    /\ UNCHANGED <<cache, req, call>>

Next ==
    \/ \E r \in Reqs : Search(r)
    \/ \E r \in Reqs : SearchProvider(r)
    \/ \E r \in Reqs : SearchReply(r)
    \/ \E r \in Reqs : SearchRaise(r)
    \/ \E r \in Reqs : SearchProviderReply(r)
    \/ \E r \in Reqs : SearchProviderRaise(r)
    \/ Tick

Spec == Init /\ [][Next]_vars

\* The provider call request r awaits returns or raises.
Resume(r) ==
    \/ SearchReply(r) \/ SearchRaise(r)
    \/ SearchProviderReply(r) \/ SearchProviderRaise(r)

\* Request r, as it is after this step, has no Cache-Control header and asks
\* for the short summary.
Plain(r) == ~req'[r].cache_control.present /\ ~req'[r].long

\* The steps of the application when every request is plain.
NextFair ==
    \/ \E r \in Reqs : Search(r) /\ Plain(r)
    \/ \E r \in Reqs : SearchProvider(r) /\ Plain(r)
    \/ \E r \in Reqs : SearchReply(r)
    \/ \E r \in Reqs : SearchRaise(r)
    \/ \E r \in Reqs : SearchProviderReply(r)
    \/ \E r \in Reqs : SearchProviderRaise(r)
    \/ Tick

(***************************************************************************)
(* The provider calls of the request that arrived first may never return;  *)
(* those of every other request return or raise, and the event loop then   *)
(* resumes the handler (asyncio runs every ready coroutine).               *)
(***************************************************************************)
SpecFair ==
    /\ Init /\ [][NextFair]_vars
    /\ \A r \in Reqs \ {1} : WF_vars(Resume(r))

(***************************************************************************)
(* The scrapers (src/providers).  A call of search or long_search is        *)
(* followed from its arguments and the pages the site serves to the reply,  *)
(* the exception or the value it ends with.  A page is described by what    *)
(* the scraper reads from it.                                               *)
(***************************************************************************)

\* The text argument of ScraperTreccani.search: an address of www.treccani.it
\* outside /vocabolario/ricerca ("url"), an address of
\* www.treccani.it/vocabolario/ricerca ("ricerca_url"), or a free-text term.
TreccaniTexts == {"url", "ricerca_url", "term"}

\* A div element with its text, or None when the page has no such div.
Divs == {None} \cup { [kind |-> "div", text |-> t] : t \in Texts }

\* An <a> element with its href.
Anchor(href) == [kind |-> "a", href |-> href]

\* The h2.search_preview-title elements whose text contains the term, with
\* their first <a> (None when the h2 has no <a>).
H2Lists ==
    { <<>>,
      << [label |-> "Rome (city)", a |-> Anchor("u1")] >>,
      << [label |-> "Rome (city)", a |-> Anchor("u1")],
         [label |-> "Rome (film)", a |-> Anchor("u2")] >>,
      << [label |-> "Rome (city)", a |-> Anchor("u1")],
         [label |-> "Rome (film)", a |-> None] >> }

\* The page of the first requests.get of ScraperTreccani.search.
TreccaniFirstPages == [article : Divs, abstract : Divs, titles : H2Lists]

\* The page of the second requests.get (line 101), with its status code.
TreccaniSecondPages == [status_code : {200, 404}, article : Divs, abstract : Divs]

\* treccani 22-26: _scrape_treccani.
ScrapeTreccani(page) ==
    IF page.article = None THEN page.abstract ELSE page.article

\* treccani 28-49: _disambiguity_page; child.get on None raises
\* AttributeError.
DisambiguityPage(titles) ==
    IF \E i \in 1..Len(titles) : titles[i].a = None
    THEN Raised("AttributeError")
    ELSE [kind |-> "list",
          list |-> [i \in 1..Len(titles) |->
                      [label |-> titles[i].label,
                       url |-> <<"https://www.treccani.it", titles[i].a.href>>]]]

\* ScrapeReply(language=..., disambiguous=False, data=...)
DataReply(language, data) ==
    [language |-> language, disambiguous |-> FALSE, data |-> data,
     disambiguousData |-> <<>>]

\* ScrapeReply(language=..., disambiguous=True, disambiguous_data=...)
DisambiguousReply(language, links) ==
    [language |-> language, disambiguous |-> TRUE, data |-> <<>>,
     disambiguousData |-> links]

(***************************************************************************)
(* treccani 51-112: ScraperTreccani.search.  The value is Returned(reply),  *)
(* Raised(exception) or None: when possible_disambiguity is False and       *)
(* _scrape_treccani finds nothing, no return statement is reached.          *)
(***************************************************************************)
TreccaniSearchResult(text, first, second) ==
    LET possible_disambiguity == text # "url"
        i == Len(first.titles)
    IN IF ~possible_disambiguity
       THEN IF ScrapeTreccani(first) # None
            THEN Returned(DataReply(TreccaniLanguage, Strip(ScrapeTreccani(first).text)))
            ELSE None
       ELSE IF i = 1
       THEN IF second.status_code # 200
            THEN Raised("GRPCError")
            ELSE IF ScrapeTreccani(second) = None
            THEN Raised("AttributeError")
            ELSE Returned(DataReply(TreccaniLanguage, Strip(ScrapeTreccani(second).text)))
       ELSE IF i = 0
       THEN Raised("GRPCError")
       ELSE LET links == DisambiguityPage(first.titles)
            IN IF links.kind = "raise"
               THEN links
               ELSE Returned(DisambiguousReply(TreccaniLanguage, links.list))

\* treccani 114-123: ScraperTreccani.long_search.
TreccaniLongSearchResult(text, first, second) ==
    TreccaniSearchResult(text, first, second)

\* The text argument of the methods of ScraperWikipediaEN: an address of
\* en.wikipedia.org or a free-text term.
WikipediaENTexts == {"url", "term"}

\* The first paragraph of more than 5 characters among the first five of
\* div.mw-parser-output, or None.
WikipediaENParagraphs ==
    { None,
      [kind |-> "p", text |-> <<"a", " ", "(", "x", ")", " ", "b", ")">>],
      [kind |-> "p", text |-> <<"rome", " ", "may refer to", ":">>] }

\* The page of requests.get: its status code, whether it has a
\* div.mw-parser-output, the paragraph and the links of its lists that
\* _get_may_refer_to_list keeps.
WikipediaENPages ==
    [status_code : {200, 404}, parser_output : BOOLEAN,
     paragraph : WikipediaENParagraphs, links : {<<>>} \cup LinkLists]

\* The place of the first ")" of s, 0 when there is none.
FirstClosing(s) ==
    IF \E i \in 1..Len(s) : s[i] = ")"
    THEN CHOOSE i \in 1..Len(s) : s[i] = ")" /\ \A j \in 1..(i - 1) : s[j] # ")"
    ELSE 0

\* wikipediaen 25: re.sub("\s?[\(\[].*?[\)\]]", "", text): every bracketed
\* group goes, with one whitespace before it.
RECURSIVE DropGroups(_)
DropGroups(s) ==
    IF s = <<>> THEN <<>>
    ELSE IF Head(s) = "(" /\ FirstClosing(s) > 0
    THEN DropGroups(SubSeq(s, FirstClosing(s) + 1, Len(s)))
    ELSE IF Len(s) > 1 /\ Head(s) = " " /\ s[2] = "(" /\ FirstClosing(s) > 0
    THEN DropGroups(SubSeq(s, FirstClosing(s) + 1, Len(s)))
    ELSE <<Head(s)>> \o DropGroups(Tail(s))

\* wikipediaen 12-29: _clean (lines 22-24 are overwritten by line 25, lines
\* 26-27 discard their value, line 28 removes every ")").
Clean(text) == SelectSeq(DropGroups(text), LAMBDA x : x # ")")

\* wikipediaen 106-116: _is_disambiguous.
WikipediaENIsDisambiguous(summary) ==
    \E i \in 1..Len(summary) : summary[i] = "may refer to"

\* wikipediaen 31-61: _get_may_refer_to_list.
GetMayReferToList(page) ==
    IF page.links = <<>> THEN Raised("GRPCError")
    ELSE [kind |-> "list", list |-> page.links]

\* wikipediaen 63-104, 130-137 and 152-159: what search and long_search
\* share, up to the disambiguation reply.  "summary": the page has one.
WikipediaENCommon(text, page) ==
    IF page.status_code # 200
    THEN Raised("GRPCError")
    ELSE IF ~page.parser_output
    THEN Raised("AttributeError")
    ELSE IF page.paragraph = None
    THEN Raised("GRPCError")
    ELSE IF WikipediaENIsDisambiguous(Clean(page.paragraph.text))
    THEN LET links == GetMayReferToList(page)
         IN IF links.kind = "raise"
            THEN links
            ELSE Returned(DisambiguousReply(WikipediaENLanguage, links.list))
    ELSE [kind |-> "summary", summary |-> Clean(page.paragraph.text)]

\* wikipediaen 118-138: ScraperWikipediaEN.search.
WikipediaENSearchResult(text, page) ==
    LET common == WikipediaENCommon(text, page)
    IN IF common.kind = "summary"
       THEN Returned(DataReply(WikipediaENLanguage, common.summary))
       ELSE common

\* wikipediaen 140-167: ScraperWikipediaEN.long_search; the text of the
\* sections, of which the paragraph is the first.
WikipediaENLongSearchResult(text, page) ==
    LET common == WikipediaENCommon(text, page)
    IN IF common.kind = "summary"
       THEN Returned(DataReply(WikipediaENLanguage,
                               Clean(page.paragraph.text \o <<"\n\n">>)))
       ELSE common

\* A call of a method of a scraper that has begun, with what the site serves.
TreccaniCalls ==
    [pc : {"called"}, scraper : {"treccani"}, method : {"search", "long_search"},
     text : TreccaniTexts, first : TreccaniFirstPages, second : TreccaniSecondPages]

WikipediaENCalls ==
    [pc : {"called"}, scraper : {"wikipediaen"}, method : {"search", "long_search"},
     text : WikipediaENTexts, page : WikipediaENPages]

\* The call after it has ended with `result`.
Ended(c, result) ==
    [pc |-> "ended", scraper |-> c.scraper, method |-> c.method,
     text |-> c.text, result |-> result]

InitScraper ==
    /\ cache = EmptyCache
    /\ now = 0
    /\ req = [r \in Reqs |-> Idle]
    /\ call \in TreccaniCalls \cup WikipediaENCalls

TreccaniSearch ==
    /\ call.pc = "called" /\ call.scraper = "treccani" /\ call.method = "search"
    /\ call' = Ended(call, TreccaniSearchResult(call.text, call.first, call.second))
    /\ UNCHANGED <<cache, now, req>>

TreccaniLongSearch ==
    /\ call.pc = "called" /\ call.scraper = "treccani" /\ call.method = "long_search"
    /\ call' = Ended(call, TreccaniLongSearchResult(call.text, call.first, call.second))
    /\ UNCHANGED <<cache, now, req>>

WikipediaENSearch ==
    /\ call.pc = "called" /\ call.scraper = "wikipediaen" /\ call.method = "search"
    /\ call' = Ended(call, WikipediaENSearchResult(call.text, call.page))
    /\ UNCHANGED <<cache, now, req>>

WikipediaENLongSearch ==
    /\ call.pc = "called" /\ call.scraper = "wikipediaen" /\ call.method = "long_search"
    /\ call' = Ended(call, WikipediaENLongSearchResult(call.text, call.page))
    /\ UNCHANGED <<cache, now, req>>

NextScraper ==
    \/ TreccaniSearch
    \/ TreccaniLongSearch
    \/ WikipediaENSearch
    \/ WikipediaENLongSearch

SpecScraper == InitScraper /\ [][NextScraper]_vars

(***************************************************************************)
(* Properties.                                                              *)
(***************************************************************************)
NoCacheHeader == Header(<<"no-cache">>)

MaxAgeZeroHeader == Header(<<"max-age=", "0">>)

\* The stored entry of a key, whatever its age.
Stored(c, q, long, lang, pin) == c[CacheKey(q, long, lang, pin)]

\* Request r arrives in this step.
Arrives(r) == req[r].pc = "idle" /\ req'[r].pc # "idle"

\* Request r completes in this step.
Completes(r) == req[r].pc # "done" /\ req'[r].pc = "done"

\* C1: an any-provider request without Cache-Control that arrives when the
\* cache stores an entry of age <= DEFAULT_MAX_AGE under its key (without pin)
\* ends at once with that entry as its response, calls no provider (neither
\* search nor long_search) and leaves the cache as it was.
C1_FreshEntryServedWithoutProvider ==
    [][\A r \in Reqs :
         (Arrives(r) /\ req'[r].path = "any" /\ ~req'[r].cache_control.present) =>
            LET e == Stored(cache, req'[r].q, req'[r].long, req'[r].lang, NoPin)
            IN (e # None /\ now - e.created_at <= DEFAULT_MAX_AGE) =>
                  /\ req'[r].pc = "done"
                  /\ req'[r].status = 200
                  /\ req'[r].body = e
                  /\ req'[r].calls = <<>>
                  /\ cache' = cache]_vars

\* C1 witness: a /search request without header was served from the cache.
C1_Witness ==
    \E r \in Reqs :
       /\ req[r].path = "any" /\ ~req[r].cache_control.present
       /\ req[r].pc = "done" /\ req[r].hit /\ req[r].status = 200
       /\ req[r].calls = <<>>
       /\ req[r].body = Stored(cache, req[r].q, req[r].long, req[r].lang, NoPin)

\* What an any-provider request for the inputs of r, sent without
\* Cache-Control right after this step, does up to its first await.
RepeatedAfter(r) ==
    SearchBegin(cache', now', req'[r].q, req'[r].long, req'[r].lang, NoHeader)

\* The response of the repeated request is the response r got, from the
\* cache, with no provider call.
RepeatServedFromCache(r) ==
    /\ RepeatedAfter(r).req.pc = "done"
    /\ RepeatedAfter(r).req.hit
    /\ RepeatedAfter(r).req.calls = <<>>
    /\ RepeatedAfter(r).req.status = 200
    /\ RepeatedAfter(r).req.body = req'[r].body
    /\ RepeatedAfter(r).cache = cache'

\* C2 as stated: after any successful any-provider request, the identical
\* request repeated at once without Cache-Control is served from the cache
\* with the same result.
C2_Original ==
    [][\A r \in Reqs :
         (Completes(r) /\ req'[r].path = "any" /\ req'[r].status = 200) =>
            RepeatServedFromCache(r)]_vars

\* C2 amended: after a successful any-provider request whose result is not
\* older than DEFAULT_MAX_AGE (every result obtained from a provider or by
\* translation in the request, and every result served to a request without
\* Cache-Control), the identical request repeated at once without
\* Cache-Control calls no provider and returns the identical result: the
\* lookup reads the key the result was written under.
C2_RepeatServedFromCache ==
    [][\A r \in Reqs :
         (/\ Completes(r) /\ req'[r].path = "any" /\ req'[r].status = 200
          /\ now' - req'[r].body.created_at <= DEFAULT_MAX_AGE) =>
            RepeatServedFromCache(r)]_vars

\* C2 witness: a /search request that resolved through a provider, and the
\* same request, arrived after the first completed, served from the cache
\* with the identical result.
C2_Witness ==
    \E a, b \in Reqs :
       /\ req[a].path = "any" /\ req[a].pc = "done" /\ req[a].status = 200
       /\ ~req[a].hit /\ req[a].writes # <<>>
       /\ a \in req[b].pred
       /\ req[b].path = "any" /\ ~req[b].cache_control.present
       /\ req[b].q = req[a].q /\ req[b].long = req[a].long /\ req[b].lang = req[a].lang
       /\ req[b].pc = "done" /\ req[b].hit /\ req[b].calls = <<>>
       /\ req[b].body = req[a].body

\* C3: a request with Cache-Control: no-cache is never served from the cache,
\* on either endpoint: its lookup returns nothing and it goes on to the
\* providers (the first candidate of a non-empty fallback list, or the pinned
\* provider once the identifier is registered).
C3_NoCacheNeverServedFromCache ==
    \A r \in Reqs :
       (req[r].pc # "idle" /\ req[r].cache_control = NoCacheHeader) =>
          /\ ~req[r].hit
          /\ (req[r].path = "any" /\ FallbackList(req[r].lang) # <<>>) =>
                Len(req[r].calls) >= 1
          /\ (req[r].path = "pinned" /\ req[r].provider \in ProviderIds) =>
                Len(req[r].calls) = 1

\* C3 witness: a no-cache request awaits a provider although a completed
\* request has stored an entry under its key that is still within
\* DEFAULT_MAX_AGE.
C3_Witness ==
    \E r \in Reqs :
       /\ req[r].cache_control = NoCacheHeader
       /\ req[r].pc = "awaiting" /\ req[r].pred # {}
       /\ LET e == Stored(cache, req[r].q, req[r].long, req[r].lang, NoPin)
          IN e # None /\ now - e.created_at <= DEFAULT_MAX_AGE

\* What the request that arrives as r in this step would have done, up to
\* its first await, had its header been `header`.
BeginWith(r, header) ==
    IF req'[r].path = "any"
    THEN SearchBegin(cache, now, req'[r].q, req'[r].long, req'[r].lang, header)
    ELSE SearchProviderBegin(cache, now, req'[r].q, req'[r].provider,
                             req'[r].long, req'[r].lang, header)

\* C4 as stated: in every cache state, a request with Cache-Control: max-age=0
\* does what the same request with no-cache does: the same provider call or
\* response, the same cache afterwards.
C4_MaxAgeZeroLikeNoCache ==
    [][\A r \in Reqs :
         (Arrives(r) /\ req'[r].cache_control = MaxAgeZeroHeader) =>
            /\ cache' = BeginWith(r, NoCacheHeader).cache
            /\ req'[r] = [BeginWith(r, NoCacheHeader).req
                             EXCEPT !.cache_control = MaxAgeZeroHeader,
                                    !.pred = req'[r].pred,
                                    !.reads = req'[r].reads]]_vars

\* The providers called so far by r, in call order.
Called(r) == [i \in 1..Len(req[r].calls) |-> req[r].calls[i].provider]

IsPrefix(s, t) == Len(s) <= Len(t) /\ SubSeq(t, 1, Len(s)) = s

\* C5: the provider calls of an any-provider request are the first candidates
\* of the fallback list of its language, in list order, each called once with
\* the method of the request's mode; at most one call is outstanding; only the
\* last completed call can have returned a reply, and then the request is
\* over with that candidate as the provider of its response.  Two requests for
\* the same language call the candidates in the same order.
C5_FanoutIsSequentialPrefix ==
    /\ \A r \in Reqs :
          req[r].path = "any" =>
             /\ IsPrefix(Called(r), FallbackList(req[r].lang))
             /\ \A i \in 1..Len(req[r].calls) :
                   req[r].calls[i].method = Method(req[r].long)
             /\ req[r].hit => req[r].calls = <<>>
             /\ Len(req[r].outcomes) =
                   IF req[r].pc = "awaiting"
                   THEN Len(req[r].calls) - 1 ELSE Len(req[r].calls)
             /\ \A i \in 1..Len(req[r].outcomes) :
                   req[r].outcomes[i].kind = "reply" =>
                      /\ i = Len(req[r].calls)
                      /\ req[r].pc = "done"
                      /\ req[r].status \in {200, 409}
                      /\ req[r].body.provider = Called(r)[i]
    /\ \A a, b \in Reqs :
          (req[a].path = "any" /\ req[b].path = "any" /\ req[a].lang = req[b].lang) =>
             (IsPrefix(Called(a), Called(b)) \/ IsPrefix(Called(b), Called(a)))

\* C5 witness: a request called the first candidate, which raised, then the
\* second, which replied, and is over.
C5_Witness ==
    \E r \in Reqs :
       /\ req[r].path = "any" /\ req[r].pc = "done"
       /\ Called(r) = <<"treccani", "wikipediaen">>
       /\ req[r].outcomes[1].kind = "raise"
       /\ req[r].outcomes[2].kind = "reply"

\* The any-provider request r has reached the fanout: its lookup returned
\* nothing.  A request that is served from the cache never gets there, nor
\* one whose header makes int() raise (it ends with 500 before any call).
InFanout(r) ==
    /\ req[r].path = "any" /\ req[r].pc # "idle"
    /\ ~req[r].hit
    /\ ~(req[r].status = 500 /\ req[r].calls = <<>>)

AllRaised(r) ==
    \A i \in 1..Len(req[r].outcomes) : req[r].outcomes[i].kind = "raise"

\* C6: in the fanout of an any-provider request no exception of a candidate,
\* of whatever kind, ends the request: the next candidate is called.  The
\* request ends with 404 exactly when every candidate of the list has raised
\* (at once when the list is empty), and never with 500; when a candidate
\* replies after earlier ones raised, the response names that candidate.
C6_OnlyExhaustionIsNotFound ==
    \A r \in Reqs :
       InFanout(r) =>
          /\ req[r].status # 500
          /\ \A i \in 1..Len(req[r].outcomes) :
                (req[r].outcomes[i].kind = "raise" /\ i < Len(FallbackList(req[r].lang))) =>
                   /\ Len(req[r].calls) > i
                   /\ Called(r)[i + 1] = FallbackList(req[r].lang)[i + 1]
          /\ (req[r].pc = "done" /\ req[r].status = 404) <=>
                (AllRaised(r) /\ Len(req[r].outcomes) = Len(FallbackList(req[r].lang)))
          /\ (req[r].pc = "done" /\ ~AllRaised(r)) =>
                /\ req[r].status \in {200, 409}
                /\ req[r].body.provider = Called(r)[Len(req[r].calls)]

\* C6 witness: treccani raised an exception that is neither a GRPCError nor a
\* ConnectionRefusedError, wikipediaen replied, and the response names
\* wikipediaen.
C6_Witness ==
    \E r \in Reqs :
       /\ InFanout(r) /\ req[r].pc = "done" /\ req[r].status = 200
       /\ Len(req[r].outcomes) = 2
       /\ req[r].outcomes[1] = Raised("Exception")
       /\ req[r].body.provider = "wikipediaen"

\* C7: a request that ends with the disambiguation response (409) has made no
\* cache write and no translation, and the step that ends it leaves the cache
\* as it is; so when the cache had no entry within DEFAULT_MAX_AGE for the
\* request's key, the identical request sent next without Cache-Control
\* misses the cache again and calls a provider.
C7_DisambiguousNeverCached ==
    [][\A r \in Reqs :
         (Completes(r) /\ req'[r].status = 409) =>
            /\ cache' = cache
            /\ req'[r].writes = <<>>
            /\ req'[r].translations = 0
            /\ (CacheRetrieve(cache, now, req[r].q, req[r].long, req[r].lang,
                              DEFAULT_MAX_AGE, req[r].provider) = None) =>
                  /\ BeginWith(r, NoHeader).req.pc = "awaiting"
                  /\ ~BeginWith(r, NoHeader).req.hit
                  /\ Len(BeginWith(r, NoHeader).req.calls) = 1]_vars

\* C7 witness: a request without Cache-Control got the disambiguation
\* response; the identical request arrived after it, missed the cache and
\* awaits a provider.
C7_Witness ==
    \E a, b \in Reqs :
       /\ req[a].pc = "done" /\ req[a].status = 409
       /\ ~req[a].cache_control.present
       /\ a \in req[b].pred
       /\ req[b].path = req[a].path /\ req[b].provider = req[a].provider
       /\ req[b].q = req[a].q /\ req[b].long = req[a].long /\ req[b].lang = req[a].lang
       /\ ~req[b].cache_control.present
       /\ req[b].pc = "awaiting" /\ ~req[b].hit

\* The reply that ended the fanout of r in this step, and its provider.
WinningReply(r) == req'[r].outcomes[Len(req'[r].outcomes)].reply

Winner(r) == req'[r].calls[Len(req'[r].calls)].provider

\* Request r ends in this step with a success built from a provider's reply.
SucceedsFromReply(r) ==
    Completes(r) /\ req[r].pc = "awaiting" /\ req'[r].status = 200

\* The result the handler builds from the winning reply, as spec.md 4.3 step 4
\* states it.
Normalized(r) ==
    [kind |-> "result",
     data |-> Strip(WinningReply(r).data),
     provider |-> Winner(r),
     current_language |-> WinningReply(r).language,
     original_language |-> WinningReply(r).language,
     created_at |-> now]

\* C8: when a request that missed the cache gets a reply that is not
\* disambiguous, its first cache write stores, under the key (q, mode,
\* language of the reply), the result with the trimmed text of the reply, the
\* winning provider (the pinned one on the pinned path) and both languages
\* equal to the reply's; the write of a translation comes after it, and the
\* entry is in the cache when the request is over.  Without translation that
\* result is the response.
C8_NormalizedResultStored ==
    [][\A r \in Reqs :
         SucceedsFromReply(r) =>
            /\ req'[r].path = "pinned" => Winner(r) = req'[r].provider
            /\ req'[r].writes[1] = <<WinningReply(r).language, Winner(r)>>
            /\ Stored(cache', req'[r].q, req'[r].long, WinningReply(r).language, NoPin)
                  = Normalized(r)
            /\ Stored(cache', req'[r].q, req'[r].long, WinningReply(r).language, Winner(r))
                  = Normalized(r)
            /\ Len(req'[r].writes) = 1 + req'[r].translations
            /\ req'[r].translations = 0 => req'[r].body = Normalized(r)]_vars

\* C8 witness: a request resolved from a reply whose text has leading and
\* trailing whitespace; the stored entry is its response, with the text
\* trimmed.
C8_Witness ==
    \E r \in Reqs :
       /\ req[r].pc = "done" /\ req[r].status = 200 /\ ~req[r].hit
       /\ req[r].translations = 0
       /\ req[r].outcomes[Len(req[r].outcomes)].reply.data = <<" ", "a", " ", "b", " ">>
       /\ req[r].body.data = <<"a", " ", "b">>
       /\ Stored(cache, req[r].q, req[r].long, req[r].body.current_language, NoPin)
             = req[r].body

\* The result a request has before the translation check: the entry its
\* lookup returned, or the result it built from the winning reply.
PreTranslation(r) ==
    IF req'[r].hit
    THEN Stored(cache, req'[r].q, req'[r].long, req'[r].lang, req'[r].provider)
    ELSE Normalized(r)

\* C9: every successful request returns a result whose current_language is the
\* language requested.  When the result it has before the translation check is
\* in another language, translate is called once, the response keeps the
\* provider and original_language of that result, and the cache holds the
\* response under the key (q, mode, requested language); otherwise the
\* response is that result and translate is not called.
C9_ResponseInTargetLanguage ==
    [][\A r \in Reqs :
         (Completes(r) /\ req'[r].status = 200) =>
            /\ req'[r].body.current_language = req'[r].lang
            /\ IF PreTranslation(r).current_language # req'[r].lang
               THEN /\ req'[r].translations = 1
                    /\ req'[r].body.original_language = PreTranslation(r).original_language
                    /\ req'[r].body.provider = PreTranslation(r).provider
                    /\ Stored(cache', req'[r].q, req'[r].long, req'[r].lang, NoPin)
                          = req'[r].body
                    /\ Stored(cache', req'[r].q, req'[r].long, req'[r].lang,
                              req'[r].body.provider) = req'[r].body
               ELSE /\ req'[r].translations = 0
                    /\ req'[r].body = PreTranslation(r)]_vars

\* C9 witness: a request for "it" was answered by wikipediaen in "en"; its
\* response is the translation, stored under the key of "it".
C9_Witness ==
    \E r \in Reqs :
       /\ req[r].pc = "done" /\ req[r].status = 200
       /\ req[r].lang = "it" /\ req[r].translations = 1
       /\ req[r].body.current_language = "it"
       /\ req[r].body.original_language = "en"
       /\ Stored(cache, req[r].q, req[r].long, "it", NoPin) = req[r].body

\* Request b asks in "it", on /search, for the query and mode that request a,
\* completed before b arrived, resolved in "en" on /search; both succeeded.
EnglishThenItalian(a, b) ==
    /\ a \in req[b].pred
    /\ req[a].path = "any" /\ req[a].status = 200 /\ req[a].lang = "en"
    /\ req[b].path = "any" /\ req[b].lang = "it"
    /\ req[b].q = req[a].q /\ req[b].long = req[a].long
    /\ req[b].pc = "done" /\ req[b].status = 200

\* The cache holds an entry under "en" and another under "it" for the query
\* of b.
BothLanguagesStored(b) ==
    /\ Stored(cache, req[b].q, req[b].long, "en", NoPin) # None
    /\ Stored(cache, req[b].q, req[b].long, "it", NoPin) # None
    /\ Stored(cache, req[b].q, req[b].long, "en", NoPin)
          # Stored(cache, req[b].q, req[b].long, "it", NoPin)

\* C10 as stated: the second request calls translate exactly once, returns
\* current_language "it" and original_language "en", and the cache then holds
\* two distinct entries for the query, under "en" and under "it".
C10_Original ==
    \A a, b \in Reqs :
       EnglishThenItalian(a, b) =>
          /\ req[b].translations = 1
          /\ req[b].body.current_language = "it"
          /\ req[b].body.original_language = "en"
          /\ BothLanguagesStored(b)

\* C10 amended: the second request does not read the "en" entry; its lookup
\* reads the key of "it".  When that lookup misses and the reply that ends the
\* fanout for "it" is in "en", translate is called exactly once, the response
\* has current_language "it" and original_language "en", and the cache holds
\* two distinct entries, under "en" and under "it".  When the reply is in
\* "it", translate is not called and original_language is "it".
C10_TranslatedWhenReplyIsEnglish ==
    \A a, b \in Reqs :
       (EnglishThenItalian(a, b) /\ ~req[b].hit) =>
          /\ req[b].body.current_language = "it"
          /\ BothLanguagesStored(b)
          /\ IF req[b].outcomes[Len(req[b].outcomes)].reply.language = "en"
             THEN /\ req[b].translations = 1
                  /\ req[b].body.original_language = "en"
             ELSE /\ req[b].translations = 0
                  /\ req[b].body.original_language = "it"

\* C10 witness: after the query was resolved in "en", the request for "it"
\* missed the cache, treccani raised, wikipediaen replied in "en", and the
\* response is the translation.
C10_Witness ==
    \E a, b \in Reqs :
       /\ EnglishThenItalian(a, b) /\ ~req[b].hit
       /\ Called(b) = <<"treccani", "wikipediaen">>
       /\ req[b].translations = 1
       /\ req[b].body.original_language = "en"
       /\ BothLanguagesStored(b)

\* C11: a pinned-provider request whose identifier is not registered ends at
\* once with 422 "provider_not_available": it has read nothing from the cache,
\* written nothing to it, called no provider and no translation.
C11_UnknownProviderRejectedFirst ==
    \A r \in Reqs :
       (req[r].path = "pinned" /\ req[r].provider \notin ProviderIds) =>
          /\ req[r].pc = "done"
          /\ req[r].status = 422
          /\ req[r].body = HTTPException("provider_not_available")
          /\ req[r].reads = 0 /\ ~req[r].hit
          /\ req[r].writes = <<>>
          /\ req[r].calls = <<>>
          /\ req[r].translations = 0

\* C11 witness: a request for an unregistered identifier was rejected while
\* the cache held an entry for its query, mode and language.
C11_Witness ==
    \E r \in Reqs :
       /\ req[r].path = "pinned" /\ req[r].provider = "unknown"
       /\ req[r].status = 422 /\ req[r].reads = 0
       /\ \E a \in req[r].pred :
             /\ req[a].writes # <<>>
             /\ req[a].q = req[r].q /\ req[a].long = req[r].long
             /\ req[a].lang = req[r].lang
       /\ Stored(cache, req[r].q, req[r].long, req[r].lang, NoPin) # None

\* A pinned request whose identifier is registered and whose lookup returned
\* nothing.
PinnedMiss(r) ==
    /\ req[r].path = "pinned" /\ req[r].provider \in ProviderIds
    /\ req[r].pc # "idle" /\ ~req[r].hit
    /\ ~(req[r].status = 500 /\ req[r].calls = <<>>)

\* C12: a pinned request that misses the cache calls one provider, the pinned
\* one, once, with the method of its mode.  While the call is pending the
\* request waits; a GRPCError or ConnectionRefusedError of the call ends it
\* with 404 "result_not_found", any other exception with 500 "unknown_error".
C12_PinnedCallsOnlyPinnedProvider ==
    \A r \in Reqs :
       PinnedMiss(r) =>
          /\ req[r].calls = <<[provider |-> req[r].provider,
                               method |-> Method(req[r].long)]>>
          /\ Len(req[r].outcomes) <= 1
          /\ (req[r].outcomes = <<>>) <=> (req[r].pc = "awaiting")
          /\ \A e \in {"GRPCError", "ConnectionRefusedError"} :
                req[r].outcomes = <<Raised(e)>> =>
                   /\ req[r].status = 404
                   /\ req[r].body = HTTPException("result_not_found")
          /\ req[r].outcomes = <<Raised("Exception")>> =>
                /\ req[r].status = 500
                /\ req[r].body = HTTPException("unknown_error")

\* C12 witness: two pinned requests of a language with two candidates missed
\* the cache; the call of one was refused (404) and the call of the other
\* raised an unexpected exception (500); each called its provider only.
C12_Witness ==
    \E a, b \in Reqs :
       /\ PinnedMiss(a) /\ PinnedMiss(b)
       /\ req[a].lang = "it" /\ req[a].provider = "treccani"
       /\ req[a].outcomes = <<Raised("ConnectionRefusedError")>>
       /\ req[a].status = 404 /\ Len(req[a].calls) = 1
       /\ req[b].outcomes = <<Raised("Exception")>>
       /\ req[b].status = 500 /\ Len(req[b].calls) = 1

\* C13: every 200 and every 409 response of a pinned request names the
\* pinned provider, whether it comes from the cache, from the provider or
\* from a translation; and every entry the cache holds under a pinned key is
\* an entry of that provider, whatever requests ran before.
C13_PinnedResponseNamesPinnedProvider ==
    /\ \A r \in Reqs :
          (req[r].path = "pinned" /\ req[r].pc = "done"
              /\ req[r].status \in {200, 409}) =>
             req[r].body.provider = req[r].provider
    /\ \A q \in Queries, long \in Modes, lang \in Langs, p \in ProviderIds :
          Stored(cache, q, long, lang, p) # None =>
             Stored(cache, q, long, lang, p).provider = p

\* C13 witness: an any-provider request was resolved by wikipediaen and
\* stored; a later request for the same query, mode and language pinned to
\* treccani did not take that entry and answered with provider treccani.
C13_Witness ==
    \E a, b \in Reqs :
       /\ req[a].path = "any" /\ req[a].status = 200
       /\ req[a].body.provider = "wikipediaen"
       /\ a \in req[b].pred
       /\ req[b].path = "pinned" /\ req[b].provider = "treccani"
       /\ ~req[b].cache_control.present
       /\ req[b].q = req[a].q /\ req[b].long = req[a].long
       /\ req[b].lang = req[a].lang
       /\ now - req[a].body.created_at <= DEFAULT_MAX_AGE
       /\ req[b].status = 200 /\ req[b].body.provider = "treccani"

\* Header values that are neither `no-cache` nor `max-age=<non-negative
\* integer>`.
OtherLiterals ==
    { Header(<<"private">>), Header(<<"max-age=", "abc">>),
      Header(<<"max-age=", "-", "1">>), Header(<<"no-cache", "-x">>) }

\* The header max-age=d, d a decimal digit.
MaxAgeHeader(d) == Header(<<"max-age=", d>>)

\* C14 as stated: whatever the cache holds when a request arrives, the request
\* would have done with any header value other than no-cache and max-age=N
\* exactly what it does without header; with no-cache it does not read the
\* cache; with max-age=N it is served from the cache exactly when the entry
\* of its key is at most N old.
C14_DirectiveInterpretation ==
    [][\A r \in Reqs :
         Arrives(r) =>
            /\ \A h \in OtherLiterals :
                  BeginWith(r, h) =
                     [BeginWith(r, NoHeader) EXCEPT !.req.cache_control = h]
            /\ BeginWith(r, NoCacheHeader).req.reads = 0
            /\ ~BeginWith(r, NoCacheHeader).req.hit
            /\ \A d \in Digits :
                  LET e == Stored(cache, req'[r].q, req'[r].long, req'[r].lang,
                                  req'[r].provider)
                  IN (req'[r].path = "any" \/ req'[r].provider \in ProviderIds) =>
                        (BeginWith(r, MaxAgeHeader(d)).req.hit <=>
                            (e # None /\ now - e.created_at <= DigitValue(d)))]_vars

\* C15 as stated (its safety part): an any-provider request that has
\* completed has ended with a success (200), a disambiguation (409) or
\* not-found (404), never with an internal failure or an unknown-provider
\* failure.
C15_AnyProviderOutcomes ==
    \A r \in Reqs :
       (req[r].path = "any" /\ req[r].pc = "done") =>
          req[r].status \in {200, 409, 404}

\* Request r, as it is after this step, reads the cache with max-age m.
LooksUpWith(r, m) ==
    \/ ~req'[r].cache_control.present /\ m = DEFAULT_MAX_AGE
    \/ \E d \in Digits :
          m = DigitValue(d) /\ req'[r].cache_control = MaxAgeHeader(d)

\* The entry stored in c under the key r, as it is after this step, looks up.
StoredFor(c, r) ==
    Stored(c, req'[r].q, req'[r].long, req'[r].lang, req'[r].provider)

\* Request r, as it is after this step, has a key to look up.
HasKey(r) == req'[r].path = "any" \/ req'[r].provider \in ProviderIds

\* C17: an entry older than the max-age of the arriving request is not served
\* and not removed: the request reads the cache, misses and goes to the
\* providers.  When the request succeeds, the entry of its key becomes its
\* result, created now (not before the entry it replaces).  Every step that
\* leaves the request waiting or ends it with a failure leaves the cache as it
\* is, and the entry of the key is returned to a lookup whose max-age covers
\* its age.
C17_StaleEntryKeptUntilOverwritten ==
    [][\A r \in Reqs :
         (req'[r] # req[r] /\ HasKey(r)) =>
            /\ \A m \in 0..MaxTime :
                  (/\ Arrives(r) /\ LooksUpWith(r, m)
                   /\ StoredFor(cache, r) # None
                   /\ now - StoredFor(cache, r).created_at > m) =>
                      /\ req'[r].reads = 1 /\ ~req'[r].hit
                      /\ cache' = cache
                      /\ \/ req'[r].pc = "awaiting"
                         \/ /\ req'[r].path = "any"
                            /\ FallbackList(req'[r].lang) = <<>>
                            /\ req'[r].status = 404
            /\ (~req'[r].hit /\ req'[r].status = 200) =>
                  /\ StoredFor(cache', r) = req'[r].body
                  /\ StoredFor(cache', r).created_at = now
                  /\ StoredFor(cache, r) # None =>
                        StoredFor(cache, r).created_at <= now
            /\ (req'[r].pc = "awaiting" \/ req'[r].status \in {404, 500}) =>
                  /\ cache' = cache
                  /\ StoredFor(cache, r) # None =>
                        CacheRetrieve(cache', now', req'[r].q, req'[r].long,
                                      req'[r].lang,
                                      now' - StoredFor(cache, r).created_at,
                                      req'[r].provider) = StoredFor(cache, r)]_vars

\* C17 witness: a request without header arrived when the entry of its key,
\* written by a completed request, was older than DEFAULT_MAX_AGE; it read the
\* cache, missed, called the providers, all failed, and it ended with 404
\* while the cache still holds that entry.
C17_Witness ==
    \E a, b \in Reqs :
       /\ req[a].path = "any" /\ req[a].status = 200 /\ req[a].writes # <<>>
       /\ a \in req[b].pred
       /\ req[b].path = "any" /\ ~req[b].cache_control.present
       /\ req[b].q = req[a].q /\ req[b].long = req[a].long
       /\ req[b].lang = req[a].lang
       /\ req[b].reads = 1 /\ ~req[b].hit /\ req[b].calls # <<>>
       /\ req[b].status = 404
       /\ Stored(cache, req[b].q, req[b].long, req[b].lang, NoPin) = req[a].body
       /\ now - req[a].body.created_at > DEFAULT_MAX_AGE

\* C19: in every reachable state every entry the cache holds under language L
\* has current_language L; so a request served from the cache gets a result
\* in its own language, and has called neither translate nor cache.add nor a
\* provider.
C19_EntryLanguageIsKeyLanguage ==
    /\ \A q \in Queries, long \in Modes, lang \in Langs, pin \in Pins :
          Stored(cache, q, long, lang, pin) # None =>
             Stored(cache, q, long, lang, pin).current_language = lang
    /\ \A r \in Reqs :
          req[r].hit =>
             /\ req[r].pc = "done" /\ req[r].status = 200
             /\ req[r].body.current_language = req[r].lang
             /\ req[r].translations = 0
             /\ req[r].writes = <<>>
             /\ req[r].calls = <<>>

\* C19 witness: a request was served from the cache with an entry that is a
\* translation (its original language is another one), stored under the
\* language of the request.
C19_Witness ==
    \E r \in Reqs :
       /\ req[r].hit /\ req[r].translations = 0
       /\ req[r].body.original_language # req[r].body.current_language
       /\ req[r].body.current_language = req[r].lang
       /\ Stored(cache, req[r].q, req[r].long, req[r].lang, NoPin) = req[r].body

\* C20: every step of a request that leaves it waiting for a provider or ends
\* it with 404, 422 or 500 leaves the cache as it is, and up to that step the
\* request has called neither cache.add nor translate.  (A request that ends
\* with a failure makes no other steps.)
C20_FailureLeavesCacheUntouched ==
    [][\A r \in Reqs :
         (/\ req'[r] # req[r]
          /\ req'[r].pc = "awaiting" \/ req'[r].status \in {404, 422, 500}) =>
            /\ cache' = cache
            /\ req'[r].writes = <<>>
            /\ req'[r].translations = 0]_vars

\* C20 witness: a pinned request that skipped the lookup ended with 500 after
\* an unexpected exception of its provider; the entry a completed request
\* had stored under its key is still the entry of that key.
C20_Witness ==
    \E a, b \in Reqs :
       /\ req[a].path = "pinned" /\ req[a].status = 200 /\ req[a].writes # <<>>
       /\ a \in req[b].pred
       /\ req[b].path = "pinned" /\ req[b].provider = req[a].provider
       /\ req[b].q = req[a].q /\ req[b].long = req[a].long
       /\ req[b].lang = req[a].lang
       /\ req[b].cache_control = NoCacheHeader
       /\ req[b].status = 500 /\ req[b].outcomes = <<Raised("Exception")>>
       /\ req[b].writes = <<>> /\ req[b].translations = 0
       /\ Stored(cache, req[b].q, req[b].long, req[b].lang, req[b].provider)
             = req[a].body

\* C16: when the provider calls of the request that arrived first never
\* return, every other request that waits for a provider call still
\* completes, its own calls returning or raising.
C16_HungCallStallsOnlyItsRequest ==
    \A r \in Reqs \ {1} : (req[r].pc = "awaiting") ~> (req[r].pc = "done")

\* C16 witness: a request that arrived while the first one was waiting for
\* its provider has called a provider and completed, and the first one is
\* still waiting.
C16_Witness ==
    \E r \in Reqs \ {1} :
       /\ req[1].pc = "awaiting"
       /\ req[r].pc = "done" /\ req[r].calls # <<>>

\* The reply carries data exactly when it is not disambiguous, and
\* disambiguousData exactly when it is.
WellFormed(reply) ==
    /\ (reply.data # <<>>) <=> ~reply.disambiguous
    /\ (reply.disambiguousData # <<>>) <=> reply.disambiguous

\* C18 as stated: every call of search or long_search that has ended, of
\* either scraper and for every text and every page, has returned a
\* well-formed ScrapeReply or raised an exception; none has ended returning
\* no reply.
C18_CallReturnsReplyOrFails ==
    call.pc = "ended" =>
       \/ call.result.kind = "raise"
       \/ call.result.kind = "reply" /\ WellFormed(call.result.reply)

====
